---------------------------- MODULE Spec2Model ----------------------------
(***************************************************************************)
(* RAUW tafel-ontwerper: request composition (remix_images and its entry   *)
(* points main and generate_table) and the demultiplexing of the streamed  *)
(* response into numbered output files (_process_api_stream_response).     *)
(*                                                                         *)
(* Two specifications share the actions below.                             *)
(*   Spec     the HTTP service of src/src/api.py: generate_table requests  *)
(*            handled by one event loop, sharing OUTPUT_DIR.               *)
(*   SpecCli  one process of src/src/mix_images.py: one run of main (CLI   *)
(*            or interactive mode) or one direct call of remix_images.     *)
(***************************************************************************)
EXTENDS Integers, Sequences, FiniteSets, TLC

\* ------------------------------------------------------------------ bounds
MaxPaths == 6       \* longest list of source image paths tried
MaxChunks == 2      \* chunks a response stream yields at most
MaxParts == 2       \* parts a chunk carries at most
MaxClock == 1       \* whole seconds the clock may advance
MaxGens == 2        \* generate_table requests accepted in one behaviour

\* Request handlers of the service; the command-line process is CliProc.
Procs == {1, 2}
CliProc == 1

VARIABLES
    api_key,        \* GEMINI_API_KEY is set in the environment
    clock,          \* int(time.time()): whole seconds
    dir,            \* remixed_image_* files of the output directory, oldest mtime first
    gens,           \* generations started so far; numbers the runs
    pc,             \* control position of each handler
    entry,          \* the entry point of the run: "api", "cli", "interactive", "direct"
    run,            \* the number of the run the handler executes
    image_paths,    \* remix_images' argument image_paths
    prompt,         \* remix_images' argument prompt
    legs,           \* the leg count the caller supplied ("" when none)
    contents,       \* the contents handed to generate_content_stream
    called,         \* generate_content_stream has been called in this run
    demux,          \* position of the for-loop over the stream: STREAMING, DONE, FAILED
    last,           \* what the last pull of the stream yielded
    pulled,         \* chunks pulled so far
    cur,            \* parts of the current chunk not yet handled
    file_index,     \* local file_index of _process_api_stream_response
    images,         \* MIME types of the image parts the run's stream delivered, in arrival order
    written,        \* names handed to _save_binary_file during the call, in order
    started,        \* clock value when the stream was handed to the demultiplexer
    temp,           \* runs whose temp_room_* file exists in the output directory
    saved,          \* the handler saved an uploaded room photo in this request
    result          \* what the caller of the run received

globals == <<api_key, clock, dir, gens>>
reqVars == <<image_paths, prompt, legs, contents, called>>
streamVars == <<demux, last, pulled, cur, file_index, images, written, started>>
apiVars == <<temp, saved>>
vars == <<api_key, clock, dir, gens, pc, entry, run, image_paths, prompt, legs,
          contents, called, demux, last, pulled, cur, file_index, images,
          written, started, temp, saved, result>>

\* ------------------------------------------------------------- source files
\* A source image path: its position in the caller's list identifies the
\* file, its extension decides the MIME type.
Exts == {"png", "jpg", "xyz"}
ImageExts == {"png", "jpg"}

Path(i, e) == [id |-> i, ext |-> e]

\* mimetypes.guess_type on the file name; "None" is Python's None.
guess_type(file_path) ==
    CASE file_path.ext = "png" -> "image/png"
      [] file_path.ext = "jpg" -> "image/jpeg"
      [] OTHER -> "None"

\* mimetypes.guess_extension on a part's MIME type.
guess_extension(mime_type) ==
    CASE mime_type = "image/png" -> ".png"
      [] mime_type = "image/jpeg" -> ".jpg"
      [] OTHER -> "None"

NoError == ""
MimeError == "Could not determine MIME type"
KeyError == "GEMINI_API_KEY environment variable not set."

_get_mime_type_default(file_path) ==
    LET mime_type == guess_type(file_path)
    IN  [raised |-> NoError,
         mime |-> IF mime_type = "None" THEN "application/octet-stream" ELSE mime_type]

_get_mime_type(file_path) ==
    LET mime_type == guess_type(file_path)
    IN  IF mime_type = "None"
        THEN [raised |-> MimeError, mime |-> "None"]
        ELSE [raised |-> NoError, mime |-> mime_type]

ImagePart(data, mime_type) == [kind |-> "image", data |-> data, mime |-> mime_type, text |-> <<>>]
TextPart(text) == [kind |-> "text", data |-> 0, mime |-> "", text |-> text]

\* The loop of _load_image_parts; every path names a readable file.
RECURSIVE LoadLoop(_, _)
LoadLoop(paths, parts) ==
    IF paths = <<>>
    THEN [raised |-> NoError, parts |-> parts]
    ELSE LET m == _get_mime_type(Head(paths))
         IN  IF m.raised # NoError
             THEN [raised |-> m.raised, parts |-> <<>>]
             ELSE LoadLoop(Tail(paths), Append(parts, ImagePart(Head(paths).id, m.mime)))

RECURSIVE LoadLoopReversed(_, _)
LoadLoopReversed(paths, parts) ==
    IF paths = <<>>
    THEN [raised |-> NoError, parts |-> parts]
    ELSE LET m == _get_mime_type(Head(paths))
         IN  IF m.raised # NoError
             THEN [raised |-> m.raised, parts |-> <<>>]
             ELSE LoadLoopReversed(Tail(paths),
                                   <<ImagePart(Head(paths).id, m.mime)>> \o parts)

_load_image_parts_reversed(paths) == LoadLoopReversed(paths, <<>>)

_load_image_parts(paths) == LoadLoop(paths, <<>>)

\* remix_images up to the call of generate_content_stream: the error raised,
\* or the contents submitted.
remix_images(paths, text) ==
    IF ~api_key
    THEN [raised |-> KeyError, contents |-> <<>>]
    ELSE LET loaded == _load_image_parts(paths)
         IN  IF loaded.raised # NoError
             THEN [raised |-> loaded.raised, contents |-> <<>>]
             ELSE [raised |-> NoError, contents |-> Append(loaded.parts, TextPart(text))]

\* ------------------------------------------------------------------ prompts
\* An instruction text is the sequence of its fragments, concatenated.
RoomTemplate == "Create a photorealistic visualization ... place this complete table naturally in the room shown in image 4 ... in the actual room."
ShowroomTemplate == "Create a new image by combining the elements from the provided images ... image 1 ... image 2 ... image 3 ... natural lighting]."
StudioPrompt == "Turn this image into a professional quality studio shoot with better lighting and depth of field."
CombinePrompt == "Combine the subjects of these images in a natural way, producing a new image."
CustomPrompt == "user prompt"
LegsPrefix == " IMPORTANT: The table must have exactly "
LegsSuffix == " legs."

LegCounts == {"2", "3", "4"}

generate_table_prompt(with_room, legs_arg) ==
    LET legs_instruction ==
            IF legs_arg # "" THEN <<LegsPrefix, legs_arg, LegsSuffix>> ELSE <<>>
    IN  IF with_room
        THEN <<RoomTemplate>> \o legs_instruction
        ELSE <<ShowroomTemplate>> \o legs_instruction

\* The text holds "exactly N legs".
HasLegsClause(text, n) ==
    \E i \in 1..Len(text) :
        /\ i + 2 <= Len(text)
        /\ text[i] = LegsPrefix /\ text[i + 1] = n /\ text[i + 2] = LegsSuffix

HasAnyLegsClause(text) ==
    \E i \in 1..Len(text) : text[i] = LegsPrefix \/ text[i] = LegsSuffix

\* ------------------------------------------------------------------ results
NoFile == [ts |-> -1, idx |-> -1, ext |-> ""]
NoResult == [kind |-> "none", detail |-> "", cause |-> "", file |-> NoFile]
Outcome(kind, detail, cause, file) ==
    [kind |-> kind, detail |-> detail, cause |-> cause, file |-> file]

\* ---------------------------------------------------------------- the stream
PngPart == [inline_data |-> "image/png", text |-> ""]
JpegPart == [inline_data |-> "image/jpeg", text |-> ""]
HelloPart == [inline_data |-> "", text |-> "hello"]
EmptyPart == [inline_data |-> "", text |-> ""]
StreamParts == {PngPart, JpegPart, HelloPart, EmptyPart}

SeqsUpTo(S, n) == UNION {[1..k -> S] : k \in 0..n}

\* A chunk: candidates is None, or the parts of candidates[0].content.
Chunks ==
    {[candidates |-> "None", parts |-> <<>>]}
        \cup {[candidates |-> "some", parts |-> ps] : ps \in SeqsUpTo(StreamParts, MaxParts)}

Init ==
    /\ api_key \in BOOLEAN
    /\ clock = 0
    /\ dir = <<>>
    /\ gens = 0
    /\ pc = [p \in Procs |-> "idle"]
    /\ entry = [p \in Procs |-> "none"]
    /\ run = [p \in Procs |-> 0]
    /\ image_paths = [p \in Procs |-> <<>>]
    /\ prompt = [p \in Procs |-> <<>>]
    /\ legs = [p \in Procs |-> ""]
    /\ contents = [p \in Procs |-> <<>>]
    /\ called = [p \in Procs |-> FALSE]
    /\ demux = [p \in Procs |-> "NONE"]
    /\ last = [p \in Procs |-> "none"]
    /\ pulled = [p \in Procs |-> 0]
    /\ cur = [p \in Procs |-> <<>>]
    /\ file_index = [p \in Procs |-> 0]
    /\ images = [p \in Procs |-> <<>>]
    /\ written = [p \in Procs |-> <<>>]
    /\ started = [p \in Procs |-> 0]
    /\ temp = {}
    /\ saved = [p \in Procs |-> FALSE]
    /\ result = [p \in Procs |-> NoResult]

\* ------------------------------------------------------------ starting a run
\* The locals of _process_api_stream_response as a run begins; file_index = 0.
ResetStream(p, position) ==
    /\ demux' = [demux EXCEPT ![p] = position]
    /\ last' = [last EXCEPT ![p] = "none"]
    /\ pulled' = [pulled EXCEPT ![p] = 0]
    /\ cur' = [cur EXCEPT ![p] = <<>>]
    /\ file_index' = [file_index EXCEPT ![p] = 0]
    /\ images' = [images EXCEPT ![p] = <<>>]
    /\ written' = [written EXCEPT ![p] = <<>>]
    /\ started' = [started EXCEPT ![p] = clock]

\* The run of handler p is decided up to the remote call: `out` is what
\* remix_images did (or the error that kept the caller from reaching it),
\* `res` what the caller receives if no stream was opened.
SetRun(p, e, paths, text, lg, out, res) ==
    /\ entry' = [entry EXCEPT ![p] = e]
    /\ image_paths' = [image_paths EXCEPT ![p] = paths]
    /\ prompt' = [prompt EXCEPT ![p] = text]
    /\ legs' = [legs EXCEPT ![p] = lg]
    /\ contents' = [contents EXCEPT ![p] = out.contents]
    /\ IF out.raised = NoError
       THEN /\ pc' = [pc EXCEPT ![p] = "called"]
            /\ called' = [called EXCEPT ![p] = TRUE]
            /\ result' = [result EXCEPT ![p] = NoResult]
            /\ ResetStream(p, "STREAMING")
       ELSE /\ pc' = [pc EXCEPT ![p] = "returned"]
            /\ called' = [called EXCEPT ![p] = FALSE]
            /\ result' = [result EXCEPT ![p] = res]
            /\ ResetStream(p, "NONE")

NewRun(p) ==
    /\ gens' = gens + 1
    /\ run' = [run EXCEPT ![p] = gens + 1]

Raised(out) == Outcome("exception", out.raised, "", NoFile)
NotReached(why) == [raised |-> why, contents |-> <<>>]

PathsOf(n, exts) == [i \in 1..n |-> Path(i, exts[i])]

\* ------------------------------------------------------------------- main
\* main, CLI mode: the images after the optional room image is added.
all_image_paths(paths, room_image, room_ext) ==
    IF room_image = "exists" /\ Len(paths) = 3
    THEN Append(paths, Path(4, room_ext))
    ELSE paths

\* main, CLI mode: the prompt chosen for the run.
final_prompt(prompt_arg, num_images, room_image, legs_arg) ==
    IF prompt_arg # "None"
    THEN <<prompt_arg>>
    ELSE IF num_images = 4 /\ room_image # "none"
         THEN generate_table_prompt(TRUE, legs_arg)
         ELSE IF num_images = 3
              THEN generate_table_prompt(FALSE, legs_arg)
              ELSE IF num_images = 1 THEN <<StudioPrompt>> ELSE <<CombinePrompt>>

MainCli(p) ==
    /\ pc[p] = "idle" /\ gens = 0
    /\ \E n \in 1..MaxPaths, room_image \in {"none", "exists", "missing"},
          room_ext \in Exts, prompt_arg \in {"None", CustomPrompt},
          legs_arg \in {""} \cup LegCounts :
        \E exts \in [1..n -> Exts] :
          LET paths == all_image_paths(PathsOf(n, exts), room_image, room_ext)
              num_images == Len(paths)
              text == final_prompt(prompt_arg, num_images, room_image, legs_arg)
          IN  \* the extension of a room image that is not used plays no part
              /\ (room_image = "exists" /\ n = 3) \/ room_ext = "png"
              /\ IF ~(1 <= num_images /\ num_images <= 5)
                 THEN SetRun(p, "cli", paths, <<>>, legs_arg,
                             NotReached("parser.error"),
                             Outcome("usage_error",
                                     "Please provide between 1 and 5 input images using the -i flag.",
                                     "", NoFile))
                 ELSE SetRun(p, "cli", paths, text, legs_arg,
                             remix_images(paths, text),
                             Raised(remix_images(paths, text)))
    /\ NewRun(p)
    /\ UNCHANGED <<api_key, clock, dir, temp, saved>>

\* main, interactive table designer: select_image offers .jpg, .jpeg and
\* .png files only; the leg count is asked until it is 2, 3 or 4.
MainInteractive(p) ==
    /\ pc[p] = "idle" /\ gens = 0
    /\ \E choice_ok \in BOOLEAN, room_image \in {"none", "exists", "missing"},
          room_ext \in Exts, aantal_poten \in LegCounts :
        \E exts \in [1..3 -> ImageExts] :
          LET with_room == room_image = "exists"
              paths == IF with_room
                       THEN Append(PathsOf(3, exts), Path(4, room_ext))
                       ELSE PathsOf(3, exts)
              text == generate_table_prompt(with_room, aantal_poten)
          IN  /\ with_room \/ room_ext = "png"
              /\ IF ~choice_ok
                 THEN SetRun(p, "interactive", <<>>, <<>>, "",
                             NotReached("select_image"),
                             Outcome("exception", "invalid choice", "", NoFile))
                 ELSE SetRun(p, "interactive", paths, text, aantal_poten,
                             remix_images(paths, text),
                             Raised(remix_images(paths, text)))
    /\ NewRun(p)
    /\ UNCHANGED <<api_key, clock, dir, temp, saved>>

\* remix_images called by a program of its own, with any list of paths.
DirectCall(p) ==
    /\ pc[p] = "idle" /\ gens = 0
    /\ \E n \in 0..MaxPaths :
        \E exts \in [1..n -> Exts] :
          LET paths == PathsOf(n, exts)
              text == <<CustomPrompt>>
          IN  SetRun(p, "direct", paths, text, "",
                     remix_images(paths, text), Raised(remix_images(paths, text)))
    /\ NewRun(p)
    /\ UNCHANGED <<api_key, clock, dir, temp, saved>>

\* ---------------------------------------------------------- generate_table
\* One event loop runs the handlers: remix_images does not await, so while a
\* handler consumes its stream no other handler takes a step.
Busy == \E q \in Procs : pc[q] \in {"called", "streaming"}

\* generate_table from the prompt on (after the last await).
Generate(p, g, paths, with_room) ==
    LET text == generate_table_prompt(with_room, "")
        out == remix_images(paths, text)
    IN  IF ~api_key
        THEN /\ SetRun(p, "api", paths, text, "", NotReached("no key"),
                        Outcome("http_500", "GEMINI_API_KEY not configured. Please set environment variable.",
                                "", NoFile))
             /\ temp' = temp
        ELSE /\ SetRun(p, "api", paths, text, "", out,
                        Outcome("http_500", "Generation failed", out.raised, NoFile))
             /\ temp' = IF out.raised = NoError THEN temp ELSE temp \ {g}

\* generate_table up to its last await: the three files are looked up, the
\* room photo is measured and its temp_room_* file is opened.
ApiBegin(p) ==
    /\ pc[p] \in {"idle", "returned"} /\ gens < MaxGens /\ ~Busy
    /\ NewRun(p)
    /\ \E missing \in {"none", "vorm", "onderstel", "kleur"},
          room_photo \in {"none", "ok", "too big"} :
        \E exts \in [1..3 -> Exts] :
          LET paths == PathsOf(3, exts)
          IN  IF missing # "none"
              THEN /\ room_photo = "none" /\ exts = [i \in 1..3 |-> "png"]
                   /\ SetRun(p, "api", <<>>, <<>>, "", NotReached("404"),
                              Outcome("http_404", "file not found", missing, NoFile))
                   /\ saved' = [saved EXCEPT ![p] = FALSE]
                   /\ temp' = temp
              ELSE IF room_photo = "too big"
                   THEN /\ SetRun(p, "api", paths, <<>>, "", NotReached("413"),
                                   Outcome("http_413", "File exceeds 10MB limit", "", NoFile))
                        /\ saved' = [saved EXCEPT ![p] = FALSE]
                        /\ temp' = temp
                   ELSE IF room_photo = "ok"
                        THEN /\ pc' = [pc EXCEPT ![p] = "uploading"]
                             /\ entry' = [entry EXCEPT ![p] = "api"]
                             /\ image_paths' = [image_paths EXCEPT ![p] = paths]
                             /\ prompt' = [prompt EXCEPT ![p] = <<>>]
                             /\ legs' = [legs EXCEPT ![p] = ""]
                             /\ contents' = [contents EXCEPT ![p] = <<>>]
                             /\ called' = [called EXCEPT ![p] = FALSE]
                             /\ result' = [result EXCEPT ![p] = NoResult]
                             /\ ResetStream(p, "NONE")
                             /\ saved' = [saved EXCEPT ![p] = TRUE]
                             /\ temp' = temp \cup {gens + 1}
                        ELSE /\ saved' = [saved EXCEPT ![p] = FALSE]
                             /\ Generate(p, gens + 1, paths, FALSE)
    /\ UNCHANGED <<api_key, clock, dir>>

\* generate_table once the upload has been read: the photo is written and
\* joins the images as the fourth.
ApiGenerate(p) ==
    /\ pc[p] = "uploading" /\ ~Busy
    /\ Generate(p, run[p], Append(image_paths[p], Path(4, "jpg")), TRUE)
    /\ UNCHANGED <<api_key, clock, dir, gens, run, saved>>

\* --------------------------------------------- _process_api_stream_response
Streaming(p) == pc[p] \in {"called", "streaming"}

\* remix_images is left: the locals of the loop are gone.
Left(p) ==
    /\ pulled' = [pulled EXCEPT ![p] = 0]
    /\ file_index' = [file_index EXCEPT ![p] = 0]
    /\ written' = [written EXCEPT ![p] = <<>>]
    /\ started' = [started EXCEPT ![p] = 0]

\* Once the first pull is answered the request is no longer in flight.
Consumed(p) ==
    /\ image_paths' = [image_paths EXCEPT ![p] = <<>>]
    /\ prompt' = [prompt EXCEPT ![p] = <<>>]
    /\ legs' = [legs EXCEPT ![p] = ""]
    /\ contents' = [contents EXCEPT ![p] = <<>>]

\* for chunk in stream: the next chunk arrives; one without candidates,
\* content or parts is skipped.
PullChunk(p) ==
    /\ Streaming(p) /\ cur[p] = <<>> /\ pulled[p] < MaxChunks
    /\ \E chunk \in Chunks :
          cur' = [cur EXCEPT ![p] = IF chunk.candidates = "None" THEN <<>> ELSE chunk.parts]
    /\ pulled' = [pulled EXCEPT ![p] = @ + 1]
    /\ last' = [last EXCEPT ![p] = "chunk"]
    /\ pc' = [pc EXCEPT ![p] = "streaming"]
    /\ Consumed(p)
    /\ UNCHANGED <<globals, entry, run, called, demux, file_index, images,
                   written, started, temp, saved, result>>

\* part.inline_data and part.inline_data.data
IsImagePart(part) == part.inline_data # ""

TimestampAtStart(p) == started[p]

\* timestamp = int(time.time()), read for each image part
Timestamp(p) == clock

\* f"remixed_image_{timestamp}_{file_index}{file_extension}"
file_name(timestamp, index, mime_type) ==
    [ts |-> timestamp, idx |-> index, ext |-> guess_extension(mime_type)]

\* open(file_name, "wb"): the file is created or replaced, and is the newest.
_save_binary_file(d, name, g) ==
    Append(SelectSeq(d, LAMBDA f : f.name # name), [name |-> name, gen |-> g])

NextIndexPerPart(part, index) == index + 1

NextIndex(part, index) == IF IsImagePart(part) THEN index + 1 ELSE index

\* The body of the loop over the parts of a chunk, for one part.
ProcessPart(p) ==
    /\ pc[p] = "streaming" /\ cur[p] # <<>>
    /\ LET part == Head(cur[p])
           name == file_name(Timestamp(p), file_index[p], part.inline_data)
       IN  /\ IF IsImagePart(part)
              THEN /\ dir' = _save_binary_file(dir, name, run[p])
                   /\ written' = [written EXCEPT ![p] = Append(@, name)]
              ELSE /\ dir' = dir          \* print(part.text), or nothing
                   /\ written' = written
           /\ file_index' = [file_index EXCEPT ![p] = NextIndex(part, @)]
           /\ images' = [images EXCEPT ![p] =
                            IF part.inline_data # "" THEN Append(@, part.inline_data) ELSE @]
    /\ cur' = [cur EXCEPT ![p] = Tail(@)]
    /\ UNCHANGED <<api_key, clock, gens, pc, entry, run, reqVars, demux, last, pulled,
                   started, temp, saved, result>>

\* generate_table after remix_images returned: the newest remixed_image_*
\* file of the directory is the answer; none is an error, which the handler's
\* own except clause wraps.
generate_table_result(d) ==
    IF d = <<>>
    THEN Outcome("http_500", "Generation failed",
                 "Image generation failed - no output produced", NoFile)
    ELSE Outcome("success", "Table generated successfully", "", d[Len(d)].name)

PositionSwallowed == "DONE"

\* Where an exception raised by the pull leaves the loop: nothing catches it.
PositionOnError == "FAILED"

\* The stream is exhausted: the loop ends and remix_images returns.
EndOfStream(p) ==
    /\ Streaming(p) /\ cur[p] = <<>>
    /\ demux' = [demux EXCEPT ![p] = "DONE"]
    /\ last' = [last EXCEPT ![p] = "end"]
    /\ pc' = [pc EXCEPT ![p] = "returned"]
    /\ result' = [result EXCEPT ![p] =
                     IF entry[p] = "api"
                     THEN generate_table_result(dir)
                     ELSE Outcome("ok", "", "", NoFile)]
    /\ temp' = IF entry[p] = "api" THEN temp \ {run[p]} ELSE temp
    /\ Consumed(p)
    /\ Left(p)
    /\ UNCHANGED <<api_key, clock, dir, gens, entry, run, called, cur, images, saved>>

\* Pulling the next chunk raises: the exception leaves the loop and
\* remix_images; generate_table's except clause removes the room photo.
TransportError(p) ==
    /\ Streaming(p) /\ cur[p] = <<>>
    /\ demux' = [demux EXCEPT ![p] = PositionOnError]
    /\ last' = [last EXCEPT ![p] = "error"]
    /\ pc' = [pc EXCEPT ![p] = "returned"]
    /\ result' = [result EXCEPT ![p] =
                     IF entry[p] = "api"
                     THEN Outcome("http_500", "Generation failed", "transport error", NoFile)
                     ELSE Outcome("exception", "transport error", "", NoFile)]
    /\ temp' = IF entry[p] = "api" THEN temp \ {run[p]} ELSE temp
    /\ Consumed(p)
    /\ Left(p)
    /\ UNCHANGED <<api_key, clock, dir, gens, entry, run, called, cur, images, saved>>

\* A second passes.
Tick ==
    /\ clock < MaxClock
    /\ clock' = clock + 1
    /\ UNCHANGED <<api_key, dir, gens, pc, entry, run, reqVars, streamVars, temp, saved, result>>

\* ------------------------------------------------------------ specifications
Next ==
    \/ \E p \in Procs : ApiBegin(p)
    \/ \E p \in Procs : ApiGenerate(p)
    \/ \E p \in Procs : PullChunk(p)
    \/ \E p \in Procs : ProcessPart(p)
    \/ \E p \in Procs : EndOfStream(p)
    \/ \E p \in Procs : TransportError(p)
    \/ Tick

Spec == Init /\ [][Next]_vars

NextCli ==
    \/ MainCli(CliProc)
    \/ MainInteractive(CliProc)
    \/ DirectCall(CliProc)
    \/ PullChunk(CliProc)
    \/ ProcessPart(CliProc)
    \/ EndOfStream(CliProc)
    \/ TransportError(CliProc)
    \/ Tick

SpecCli == Init /\ [][NextCli]_vars

\* ------------------------------------------------------------------- claims
BadMime(paths) == \E i \in 1..Len(paths) : guess_type(paths[i]) = "None"
SentText(p) == contents[p][Len(contents[p])].text
OwnFiles(p) == {i \in 1..Len(dir) : dir[i].gen = run[p]}

\* C1: the file index starts at 0 and, after any prefix of the stream, equals
\* the number of image parts handled so far; the k-th image part is written
\* with index k-1 and the extension of its MIME type; parts that are no image
\* create no file and leave the index alone.
C1_IndexCountsImageParts ==
    \A p \in Procs :
        /\ pc[p] = "called" => file_index[p] = 0
        /\ Streaming(p) =>
             /\ file_index[p] = Len(images[p])
             /\ Len(written[p]) = Len(images[p])
             /\ Cardinality(OwnFiles(p)) = Len(images[p])
             /\ \A k \in 1..Len(written[p]) :
                    /\ written[p][k].idx = k - 1
                    /\ written[p][k].ext = guess_extension(images[p][k])

\* Three image parts over two chunks have been written, a text part is next.
C1_Witness ==
    \E p \in Procs :
        /\ pc[p] = "streaming" /\ pulled[p] = 2
        /\ file_index[p] = 3 /\ cur[p] = <<HelloPart>>

\* C2 (as claimed): a generate_table request whose stream ended without an
\* image part answers with the "no output produced" failure, whatever the
\* output directory holds.
C2_EmptyStreamFails ==
    \A p \in Procs :
        (entry[p] = "api" /\ pc[p] = "returned" /\ demux[p] = "DONE" /\ images[p] = <<>>)
            => /\ result[p].kind = "http_500"
               /\ result[p].cause = "Image generation failed - no output produced"

\* C3: a source path whose MIME type cannot be inferred, at any position,
\* makes the run fail with no remote call, no stream consumption, no output
\* file and no request built from part of the images.
C3_MimeFailureBeforeRemoteCall ==
    \A p \in Procs :
        BadMime(image_paths[p]) =>
            /\ ~called[p]
            /\ contents[p] = <<>>
            /\ demux[p] = "NONE"
            /\ pc[p] = "returned"
            /\ result[p].kind \in {"exception", "usage_error"}
            /\ OwnFiles(p) = {}

\* Three images, the last of which has an unknown extension, were refused.
C3_Witness ==
    \E p \in Procs :
        /\ pc[p] = "returned" /\ result[p].detail = MimeError
        /\ Len(image_paths[p]) = 3
        /\ guess_type(image_paths[p][1]) # "None"
        /\ guess_type(image_paths[p][3]) = "None"

\* C4 (as claimed): generate_content_stream is called with 1 to 5 images only.
C4_ImageCountChecked ==
    \A p \in Procs :
        pc[p] = "called" => (1 <= Len(image_paths[p]) /\ Len(image_paths[p]) <= 5)

\* C5 (as claimed): the text submitted holds "exactly N legs" when the caller
\* supplied the leg count N, and no leg clause when none was supplied.
C5_LegsClauseSubmitted ==
    \A p \in Procs :
        pc[p] = "called" =>
            /\ legs[p] \in LegCounts => HasLegsClause(SentText(p), legs[p])
            /\ legs[p] = "" => ~HasAnyLegsClause(SentText(p))

\* C6: for 1 to 5 resolvable source images the contents submitted are the
\* images, one part each in the order of the list, then the instruction text.
C6_ContentsInOrder ==
    \A p \in Procs :
        (pc[p] = "called" /\ Len(image_paths[p]) \in 1..5) =>
            LET n == Len(image_paths[p])
            IN  /\ Len(contents[p]) = n + 1
                /\ \A i \in 1..n :
                       /\ contents[p][i].kind = "image"
                       /\ contents[p][i].data = image_paths[p][i].id
                       /\ contents[p][i].mime = guess_type(image_paths[p][i])
                /\ contents[p][n + 1].kind = "text"
                /\ contents[p][n + 1].text = prompt[p]

\* Three images of two types are in flight, followed by the text.
C6_Witness ==
    \E p \in Procs :
        /\ pc[p] = "called" /\ Len(image_paths[p]) = 3 /\ Len(contents[p]) = 4
        /\ contents[p][1].mime = "image/png" /\ contents[p][2].mime = "image/jpeg"

\* C7 (as claimed): every file of a run is named with the clock value at
\* the start of the run.
C7_TimestampAtStartOfRun ==
    \A p \in Procs :
        \A k \in 1..Len(written[p]) : written[p][k].ts = started[p]

\* C7 (amended): every file is named with the clock value read when its
\* image part is handled, and with the next index of the run.
C7_TimestampAtWrite ==
    [][\A p \in Procs :
          Len(written'[p]) = Len(written[p]) + 1 =>
              /\ written'[p][Len(written'[p])].ts = clock
              /\ written'[p][Len(written'[p])].idx = Len(written[p])]_vars

\* Two files of one stream carry different timestamps.
C7_Witness ==
    \E p \in Procs :
        /\ Len(written[p]) >= 2
        /\ written[p][1].ts # written[p][2].ts

\* C8 (as claimed): the file a successful generate_table request names was
\* written by that request's own stream.
C8_OwnOutputReturned ==
    \A p \in Procs :
        (pc[p] = "returned" /\ result[p].kind = "success") =>
            \E i \in OwnFiles(p) : dir[i].name = result[p].file

\* C9: the loop over the stream starts in STREAMING and leaves it once, to
\* DONE on exhaustion or to FAILED on an error of the pull; leaving it
\* removes and rewrites nothing, the files written so far are in the
\* directory, and a finished loop changes neither its state nor the files.
C9_TerminalStates ==
    [][\A p \in Procs :
          /\ (demux[p] = "NONE" /\ demux'[p] # "NONE") => demux'[p] = "STREAMING"
          /\ (demux[p] = "STREAMING" /\ demux'[p] # "STREAMING") =>
                /\ \/ last'[p] = "end" /\ demux'[p] = "DONE"
                   \/ last'[p] = "error" /\ demux'[p] = "FAILED"
                /\ dir' = dir
                /\ Cardinality(OwnFiles(p)) = Len(written[p])
                /\ \A k \in 1..Len(written[p]) :
                       \E i \in OwnFiles(p) : dir[i].name = written[p][k]
          /\ (demux[p] \in {"DONE", "FAILED"} /\ run'[p] = run[p]) =>
                /\ demux'[p] = demux[p]
                /\ dir' = dir]_vars

\* The stream failed after two files were written, and both are there.
C9_Witness ==
    \E p \in Procs :
        /\ demux[p] = "FAILED" /\ last[p] = "error"
        /\ Cardinality(OwnFiles(p)) = 2

\* C10 (as claimed): a request that saved a room photo has removed it when
\* it ends.
C10_TempRoomRemoved ==
    \A p \in Procs :
        (pc[p] = "returned" /\ saved[p]) => run[p] \notin temp

=============================================================================
